---- MODULE Spec2Model ----
(***************************************************************************)
(* A model of the image inventory notebook (ImageInventory.ipynb): the     *)
(* metadata extraction of read_metadata, the projection and archive write  *)
(* of process_tif, and the batch loop over the bucket listing that         *)
(* appends one row per image to the inventory file.                        *)
(*                                                                         *)
(* Python strings are TLA+ strings; a character is a string of length 1.   *)
(***************************************************************************)
EXTENDS Integers, Sequences, FiniteSets, TLC

(***************************************************************************)
(* Python str operations used by the notebook.                             *)
(***************************************************************************)
Char(s, i) == SubSeq(s, i, i)

\* s[i:] with a 1-based i
Drop(s, i) == SubSeq(s, i, Len(s))

\* pat in s
Contains(pat, s) ==
    \E i \in 1..(Len(s) - Len(pat) + 1) : SubSeq(s, i, i + Len(pat) - 1) = pat

\* s.endswith(suf)
EndsWith(s, suf) ==
    /\ Len(suf) <= Len(s)
    /\ SubSeq(s, Len(s) - Len(suf) + 1, Len(s)) = suf

\* the position of the first occurrence of the character c in s, 0 when none
FirstIndex(s, c) ==
    IF \E i \in 1..Len(s) : Char(s, i) = c
    THEN CHOOSE i \in 1..Len(s) :
             /\ Char(s, i) = c
             /\ \A j \in 1..(i - 1) : Char(s, j) # c
    ELSE 0

\* s.split(sep) for a separator of one character: always at least one part
RECURSIVE Split(_, _)
Split(s, sep) ==
    LET idx == FirstIndex(s, sep)
    IN  IF idx = 0
        THEN <<s>>
        ELSE <<SubSeq(s, 1, idx - 1)>> \o Split(Drop(s, idx + 1), sep)

\* seq[:-1]
AllButLast(seq) == SubSeq(seq, 1, Len(seq) - 1)

\* seq[-1]
Last(seq) == seq[Len(seq)]

Digits == {"0", "1", "2", "3", "4", "5", "6", "7", "8", "9"}

DigitVal(c) ==
    CASE c = "0" -> 0 [] c = "1" -> 1 [] c = "2" -> 2 [] c = "3" -> 3
      [] c = "4" -> 4 [] c = "5" -> 5 [] c = "6" -> 6 [] c = "7" -> 7
      [] c = "8" -> 8 [] c = "9" -> 9

DigitChar(n) ==
    CASE n = 0 -> "0" [] n = 1 -> "1" [] n = 2 -> "2" [] n = 3 -> "3"
      [] n = 4 -> "4" [] n = 5 -> "5" [] n = 6 -> "6" [] n = 7 -> "7"
      [] n = 8 -> "8" [] n = 9 -> "9"

Whitespace == {" ", "\t", "\r", "\n"}

\* s.strip(): leading and trailing whitespace removed
RECURSIVE LStrip(_)
LStrip(s) ==
    IF Len(s) > 0 /\ Char(s, 1) \in Whitespace THEN LStrip(Drop(s, 2)) ELSE s

RECURSIVE RStrip(_)
RStrip(s) ==
    IF Len(s) > 0 /\ Char(s, Len(s)) \in Whitespace
    THEN RStrip(SubSeq(s, 1, Len(s) - 1))
    ELSE s

Strip(s) == RStrip(LStrip(s))

\* the digits of an int() literal: decimal digits, single underscores between
IsDigitBody(b) ==
    /\ Len(b) > 0
    /\ \A i \in 1..Len(b) : Char(b, i) \in Digits \cup {"_"}
    /\ Char(b, 1) # "_"
    /\ Char(b, Len(b)) # "_"
    /\ \A i \in 1..(Len(b) - 1) : ~(Char(b, i) = "_" /\ Char(b, i + 1) = "_")

RECURSIVE DigitBodyVal(_, _)
DigitBodyVal(b, acc) ==
    IF Len(b) = 0 THEN acc
    ELSE IF Char(b, 1) = "_" THEN DigitBodyVal(Drop(b, 2), acc)
    ELSE DigitBodyVal(Drop(b, 2), 10 * acc + DigitVal(Char(b, 1)))

HasSign(t) == Len(t) > 0 /\ Char(t, 1) \in {"+", "-"}

\* int(value) raises ValueError unless this holds
IsIntText(value) ==
    LET t == Strip(value)
    IN  IsDigitBody(IF HasSign(t) THEN Drop(t, 2) ELSE t)

\* int(value)
IntOf(value) ==
    LET t == Strip(value)
        b == IF HasSign(t) THEN Drop(t, 2) ELSE t
        n == DigitBodyVal(b, 0)
    IN  IF HasSign(t) /\ Char(t, 1) = "-" THEN 0 - n ELSE n

\* str(n) of an int
RECURSIVE NatToStr(_)
NatToStr(n) ==
    IF n < 10 THEN DigitChar(n) ELSE NatToStr(n \div 10) \o DigitChar(n % 10)

IntToStr(n) == IF n < 0 THEN "-" \o NatToStr(0 - n) ELSE NatToStr(n)

(***************************************************************************)
(* Values held by the metadata dictionary d and by the cells of a row.     *)
(* Every value has the same shape; t tells which Python type it is:        *)
(*   "str"  s is the text             "int"   n is the integer             *)
(*   "bool" n is 1 (True) or 0        "none"  None                         *)
(*   "float" the decimal n.f, f counted in 1/1000000000                    *)
(***************************************************************************)
StrV(text) == [t |-> "str", s |-> text, n |-> 0, f |-> 0]
IntV(i) == [t |-> "int", s |-> "", n |-> i, f |-> 0]
BoolV(b) == [t |-> "bool", s |-> "", n |-> IF b THEN 1 ELSE 0, f |-> 0]
NoneV == [t |-> "none", s |-> "", n |-> 0, f |-> 0]

\* the divisor of read_metadata's float(tag.value[0])/1000000000.
Billion == 1000000000

\* float(count)/1000000000. as an exact decimal
FloatDivBillion(count) ==
    [t |-> "float", s |-> "", n |-> count \div Billion, f |-> count % Billion]

\* d = {}
EmptyDict == [k \in {} |-> NoneV]

\* d[key] = value
Put(d, key, value) ==
    [k \in DOMAIN d \cup {key} |-> IF k = key THEN value ELSE d[k]]

(***************************************************************************)
(* A container as tifffile presents it: pages, each a sequence of tags in  *)
(* the order page.tags.values() yields them.  A tag value is bytes (s), an *)
(* int (n) or a tuple of ints (tup).  TiffFile raises on a container that  *)
(* is not valid.                                                           *)
(***************************************************************************)
BytesTag(name, bytes) ==
    [name |-> name, kind |-> "bytes", s |-> bytes, n |-> 0, tup |-> <<>>]
IntTag(name, i) ==
    [name |-> name, kind |-> "int", s |-> "", n |-> i, tup |-> <<>>]
TupleTag(name, tup) ==
    [name |-> name, kind |-> "tuple", s |-> "", n |-> 0, tup |-> tup]

Container(pages) == [valid |-> TRUE, pages |-> pages]
InvalidContainer == [valid |-> FALSE, pages |-> <<>>]

\* the characters bytes.decode('ASCII') accepts (the grave accent cannot be
\* written in a TLA+ string and occurs in no value of the model): any other
\* character of a bytes value stands for a byte above 127
AsciiChars ==
    {" ", "\t", "\r", "\n", "!", "\"", "#", "$", "%", "&", "'", "(", ")", "*",
     "+", ",", "-", ".", "/", "0", "1", "2", "3", "4", "5", "6", "7", "8", "9",
     ":", ";", "<", "=", ">", "?", "@", "A", "B", "C", "D", "E", "F", "G", "H",
     "I", "J", "K", "L", "M", "N", "O", "P", "Q", "R", "S", "T", "U", "V", "W",
     "X", "Y", "Z", "[", "\\", "]", "^", "_", "a", "b", "c", "d", "e",
     "f", "g", "h", "i", "j", "k", "l", "m", "n", "o", "p", "q", "r", "s", "t",
     "u", "v", "w", "x", "y", "z", "{", "|", "}", "~"}

\* tag.value.decode('ASCII') raises UnicodeDecodeError unless this holds
IsAscii(bytes) == \A i \in 1..Len(bytes) : Char(bytes, i) \in AsciiChars

\* str(tag.value) of a tuple of ints: "(5,)", "(1, 2)"
RECURSIVE JoinInts(_)
JoinInts(tup) ==
    IF Len(tup) = 0 THEN ""
    ELSE IF Len(tup) = 1 THEN IntToStr(tup[1])
    ELSE IntToStr(tup[1]) \o ", " \o JoinInts(Tail(tup))

\* str(tag.value)
TagStr(tag) ==
    CASE tag.kind = "int" -> IntToStr(tag.n)
      [] tag.kind = "bytes" -> "b'" \o tag.s \o "'"
      [] tag.kind = "tuple" ->
            IF Len(tag.tup) = 1
            THEN "(" \o IntToStr(tag.tup[1]) \o ",)"
            ELSE "(" \o JoinInts(tag.tup) \o ")"

(***************************************************************************)
(* read_metadata.  A result is [err, d]: err is "none" and d the           *)
(* dictionary, or err names the exception that ended the call.             *)
(***************************************************************************)
Ok(d) == [err |-> "none", d |-> d]
Raise(e) == [err |-> e, d |-> EmptyDict]

IntKeys == {"images", "channels", "slices"}

\* a fault: no conversion, as in the earlier cell "d[key] = value"
CoerceItemMutantText(d, item) ==
    LET parts == Split(item, "=")
    IN  IF Len(parts) # 2 THEN Raise("ValueError_unpack")
        ELSE Ok(Put(d, parts[1], StrV(parts[2])))

\* a fault: a text that is no integer is stored as it is, int() guarded
CoerceItemMutantKeepText(d, item) ==
    LET parts == Split(item, "=")
        key == parts[1]
        value == parts[2]
    IN  IF Len(parts) # 2 THEN Raise("ValueError_unpack")
        ELSE IF key \in IntKeys
             THEN IF IsIntText(value)
                  THEN Ok(Put(d, key, IntV(IntOf(value))))
                  ELSE Ok(Put(d, key, StrV(value)))
        ELSE IF key = "hyperstack" THEN Ok(Put(d, key, BoolV(value # "")))
        ELSE Ok(Put(d, key, StrV(value)))

\* a fault: hyperstack read as the truth value its text spells
CoerceItemMutantSpelledBool(d, item) ==
    LET parts == Split(item, "=")
        key == parts[1]
        value == parts[2]
    IN  IF Len(parts) # 2 THEN Raise("ValueError_unpack")
        ELSE IF key \in IntKeys
             THEN IF IsIntText(value)
                  THEN Ok(Put(d, key, IntV(IntOf(value))))
                  ELSE Raise("ValueError_int")
        ELSE IF key = "hyperstack"
             THEN Ok(Put(d, key, BoolV(value \in {"true", "True"})))
        ELSE Ok(Put(d, key, StrV(value)))

\* a fault: item.split('=', 1), the split at the first '=' only
CoerceItemMutantFirstEq(d, item) ==
    LET at == FirstIndex(item, "=")
        key == SubSeq(item, 1, at - 1)
        value == Drop(item, at + 1)
    IN  IF at = 0 THEN Raise("ValueError_unpack")
        ELSE IF key \in IntKeys
             THEN IF IsIntText(value)
                  THEN Ok(Put(d, key, IntV(IntOf(value))))
                  ELSE Raise("ValueError_int")
        ELSE IF key = "hyperstack" THEN Ok(Put(d, key, BoolV(value # "")))
        ELSE Ok(Put(d, key, StrV(value)))

\* the body of "for item in ...": key, value = item.split('=') and the
\* conversion of the value
CoerceItem(d, item) ==
    LET parts == Split(item, "=")
        key == parts[1]
        value == parts[2]
    IN  IF Len(parts) # 2 THEN Raise("ValueError_unpack")
        ELSE IF key \in IntKeys
             THEN IF IsIntText(value)
                  THEN Ok(Put(d, key, IntV(IntOf(value))))
                  ELSE Raise("ValueError_int")
        ELSE IF key = "hyperstack" THEN Ok(Put(d, key, BoolV(value # "")))
        ELSE Ok(Put(d, key, StrV(value)))

\* for item in items
RECURSIVE ParseItems(_, _)
ParseItems(d, items) ==
    IF Len(items) = 0 THEN Ok(d)
    ELSE LET r == CoerceItem(d, Head(items))
         IN  IF r.err # "none" THEN r ELSE ParseItems(r.d, Tail(items))

\* a fault: only an empty last segment is dropped, a last line without a
\* newline is expanded like the others
ParseDescriptionMutantKeepLast(d, bytes) ==
    LET items == Split(bytes, "\n")
    IN  IF ~IsAscii(bytes) THEN Raise("UnicodeDecodeError")
        ELSE IF Last(items) = "" THEN ParseItems(d, AllButLast(items))
        ELSE ParseItems(d, items)

\* the image_description branch
ParseDescription(d, bytes) ==
    IF ~IsAscii(bytes) THEN Raise("UnicodeDecodeError")
    ELSE ParseItems(d, AllButLast(Split(bytes, "\n")))

\* the body of "for tag in page.tags.values()"
ReadTag(d, tag) ==
    IF tag.name = "image_description" THEN ParseDescription(d, tag.s)
    ELSE IF tag.name = "strip_byte_counts"
         THEN Ok(Put(d, "sizeInGB", FloatDivBillion(tag.tup[1])))
    ELSE Ok(Put(d, tag.name, StrV(TagStr(tag))))

RECURSIVE ReadTags(_, _)
ReadTags(d, tags) ==
    IF Len(tags) = 0 THEN Ok(d)
    ELSE LET r == ReadTag(d, Head(tags))
         IN  IF r.err # "none" THEN r ELSE ReadTags(r.d, Tail(tags))

\* for page in tif
RECURSIVE ReadPages(_, _)
ReadPages(d, pages) ==
    IF Len(pages) = 0 THEN Ok(d)
    ELSE LET r == ReadTags(d, Head(pages))
         IN  IF r.err # "none" THEN r ELSE ReadPages(r.d, Tail(pages))

\* read_metadata(filename), on the container the file holds
read_metadata(container) ==
    IF ~container.valid THEN Raise("InvalidTiff")
    ELSE ReadPages(EmptyDict, container.pages)

(***************************************************************************)
(* process_tif: the archive file name, and the projection of d on the six  *)
(* columns of the inventory.                                               *)
(***************************************************************************)
\* METADATA = os.path.join('data','metadata')
METADATA == "data/metadata"

\* os.path.join(METADATA, label.split('/')[-1].split('.')[0] + '_metadata.txt')
metadata_filename(label) ==
    METADATA \o "/" \o Split(Last(Split(label, "/")), ".")[1] \o "_metadata.txt"

\* the keys of small_d, in the order of the for loop
\* a fault: only the four keys of the earlier cell "for key in
\* ['image_width','image_length','channels','slices']"
RowKeysMutantFour == <<"image_width", "image_length", "channels", "slices">>

RowKeys ==
    <<"image_width", "image_length", "channels", "slices", "hyperstack",
      "sizeInGB">>

\* small_d[key] = d[key] if key in d.keys() else None
SmallValue(d, key) == IF key \in DOMAIN d THEN d[key] ELSE NoneV

\* pd.DataFrame(small_d, index = [label]): one row, its columns the keys of
\* small_d in insertion order
Project(d, label) ==
    [label |-> label,
     cols |-> RowKeys,
     cells |-> [i \in 1..Len(RowKeys) |-> SmallValue(d, RowKeys[i])]]

NoRow == [label |-> "", cols |-> <<>>, cells |-> <<>>]

(***************************************************************************)
(* The bucket.  files = cornea_bucket.objects.all() yields keys; the       *)
(* object of a key holds one container.                                    *)
(***************************************************************************)
exclude_list == {"Lepto_fovea", "Lepto_head_lowres", "Holco_Scan53_fly1"}

Keys ==
    {"a/F.tif", "b/F.tif", "Lepto_fovea/s.tif", "a/n.txt", "c/bad.tif",
     "c/d.tif"}

Bucket(key) ==
    CASE key = "a/F.tif" ->
            Container(<< <<IntTag("image_width", 512),
                           IntTag("image_length", 256),
                           BytesTag("image_description",
                                "images=3\nchannels=2\nslices=10\nhyperstack=true\n"),
                           TupleTag("strip_byte_counts", <<1159201000>>)>> >>)
      [] key = "b/F.tif" ->
            Container(<< <<IntTag("image_width", 64),
                           TupleTag("strip_byte_counts", <<5, 7>>),
                           BytesTag("image_description", "images=2\n")>>,
                         <<IntTag("image_width", 64),
                           TupleTag("strip_byte_counts", <<9>>)>> >>)
      [] key = "Lepto_fovea/s.tif" ->
            Container(<< <<IntTag("image_width", 32)>> >>)
      [] key = "c/d.tif" ->
            Container(<< <<IntTag("image_width", 16),
                           BytesTag("image_description", "note\n")>> >>)
      [] OTHER -> InvalidContainer

\* the number of keys the listing yields, at most
MaxFiles == 2

\* the number of times a loop cell is run, at most
MaxRuns == 2

Listings == UNION {[1..n -> Keys] : n \in 0..MaxFiles}

(***************************************************************************)
(* The notebook's state.                                                   *)
(***************************************************************************)
VARIABLES
    files,           \* the listing the loop iterates over
    tif_files,       \* the global list tif_files
    tif_files_done,  \* the global list tif_files_done
    inventory,       \* INVENTORY_FILE: whether it exists, and its lines
    archive,         \* the *_metadata.txt files of METADATA: name -> content
    df,              \* the global df
    pc,              \* where the running cell is; "idle" when none runs
    cell,            \* the loop cell that runs or ran last: "main", "extra"
    idx,             \* the position in files of the key of this iteration
    temp_file,       \* how many files NamedTemporaryFile made exist
    d,               \* the dictionary d of the running process_tif call
    status,          \* how the last cell ended, "running" while one runs
    runs,            \* how many times a loop cell was started
    downloaded,      \* history: the keys download_file was called with
    dumped,          \* history: the labels json.dump wrote an entry for
    run_base,        \* history: the lines of the inventory when the loop
                     \* cell that runs or ran last was started
    prev_status,     \* history: status when that loop cell was started
    done_base,       \* history: tif_files_done when that loop cell was started
    tif,             \* the key of the container the TiffFile bound to the
                     \* global tif was opened on, "" when there is none; its
                     \* file handle is open, the loop never closes it
    output,          \* what the loop cell that runs or ran last has printed
    fn_gen,          \* the parts a container under test was assembled from
    fn_in,           \* the container read_metadata is applied to
    fn_res,          \* what read_metadata returned or raised
    fn_d,            \* the dictionary d of process_tif
    fn_row,          \* the row process_tif returned
    fn_name,         \* metadata_filename of process_tif
    fn_stage         \* how far process_tif has come on fn_in

batch_vars ==
    <<files, tif_files, tif_files_done, inventory, archive, df, pc, cell, idx,
      temp_file, d, status, runs, downloaded, dumped, run_base, prev_status,
      done_base, tif, output>>

fn_vars == <<fn_gen, fn_in, fn_res, fn_d, fn_row, fn_name, fn_stage>>

vars == <<batch_vars, fn_vars>>

\* the elements of a list
Elems(seq) == {seq[i] : i \in 1..Len(seq)}

NotRun == [err |-> "notrun", d |-> EmptyDict]

\* no container is under test
FnOff ==
    /\ fn_gen = <<>>
    /\ fn_in = InvalidContainer
    /\ fn_res = NotRun
    /\ fn_d = EmptyDict
    /\ fn_row = NoRow
    /\ fn_name = ""
    /\ fn_stage = "off"

\* the notebook after the cells that define the functions and the lists
BatchStart(listing) ==
    /\ files = listing
    /\ tif_files = <<>>
    /\ tif_files_done = <<>>
    /\ inventory = [exists |-> FALSE, lines |-> <<>>]
    /\ archive = EmptyDict
    /\ df = NoRow
    /\ pc = "idle"
    /\ cell = "none"
    /\ idx = 0
    /\ temp_file = 0
    /\ d = EmptyDict
    /\ status = "none"
    /\ runs = 0
    /\ downloaded = {}
    /\ dumped = {}
    /\ run_base = 0
    /\ prev_status = "none"
    /\ done_base = <<>>
    /\ tif = ""
    /\ output = <<>>

Init == (\E listing \in Listings : BatchStart(listing)) /\ FnOff

(***************************************************************************)
(* The cells.                                                              *)
(***************************************************************************)
\* the key of the running iteration
Key == files[idx]

\* exclude, after "for name in exclude_list"
Excluded(key) == \E name \in exclude_list : Contains(name, key)

\* a fault: the test of exclude left out
PassesExcludeMutantAll(c, key) == TRUE

\* the condition guarding the body: "if not exclude:" in the main loop,
\* "if exclude:" in the loop under "Extra stuff below"
PassesExclude(c, key) ==
    IF c = "main" THEN ~Excluded(key) ELSE Excluded(key)

\* file.key.endswith('tif')
\* a fault: the test of the suffix left out
HasSuffixMutantAny(key) == TRUE

HasSuffix(key) == EndsWith(key, "tif")

\* a fault: a temporary file that is not deleted when an exception leaves
\* the block, as with NamedTemporaryFile(delete = False) and no finally
RaiseFromMutantLeak(e) ==
    /\ pc' = "idle"
    /\ status' = e
    /\ temp_file' = temp_file
    /\ d' = EmptyDict

\* a fault: the exception is caught inside the loop, which goes on
RaiseFromMutantContinue(e) ==
    /\ pc' = "for"
    /\ status' = status
    /\ temp_file' = IF pc = "for" THEN temp_file ELSE temp_file - 1
    /\ d' = EmptyDict

\* an exception leaves the with block when it is raised inside it, which
\* deletes the temporary file, and ends the cell
RaiseFrom(e) ==
    /\ pc' = "idle"
    /\ status' = e
    /\ temp_file' = IF pc = "for" THEN temp_file ELSE temp_file - 1
    /\ d' = EmptyDict

\* the next iteration of "for file in files"
NextFile ==
    /\ pc' = "for"
    /\ idx' = idx + 1

\* the cell "tif_files = []; tif_files_done = []"
RunInitCell ==
    /\ pc = "idle"
    /\ tif_files' = <<>>
    /\ tif_files_done' = <<>>
    /\ UNCHANGED <<files, inventory, archive, df, pc, cell, idx, temp_file, d,
                   status, runs, downloaded, dumped,
                   run_base, prev_status>>
    /\ UNCHANGED <<done_base, tif, output>>
    /\ UNCHANGED fn_vars

\* a loop cell is started: the main loop, or the loop under "Extra stuff
\* below"
RunLoopCell(c) ==
    /\ pc = "idle"
    /\ runs < MaxRuns
    /\ runs' = runs + 1
    /\ cell' = c
    /\ idx' = 1
    /\ pc' = "for"
    /\ status' = "running"
    /\ run_base' = Len(inventory.lines)
    /\ prev_status' = status
    /\ done_base' = tif_files_done
    /\ output' = <<>>
    /\ UNCHANGED <<files, tif_files, tif_files_done, inventory, archive, df,
                   temp_file, d, downloaded, dumped, tif>>
    /\ UNCHANGED fn_vars

\* what print(tif.info()) and %%time write to the output of the cell
InfoOutput(key) == [kind |-> "info", key |-> key]
TimeOutput == [kind |-> "time", key |-> ""]

\* the listing is exhausted: the cell ends, and %%time prints the times
LoopEnd ==
    /\ pc = "for"
    /\ idx > Len(files)
    /\ pc' = "idle"
    /\ status' = "completed"
    /\ output' = Append(output, TimeOutput)
    /\ UNCHANGED <<files, tif_files, tif_files_done, inventory, archive, df,
                   cell, idx, temp_file, d, runs, downloaded, dumped,
                   run_base, prev_status, done_base, tif>>
    /\ UNCHANGED fn_vars

\* a key the two conditions reject: nothing is done for it
SkipKey ==
    /\ pc = "for"
    /\ idx <= Len(files)
    /\ ~(PassesExclude(cell, Key) /\ HasSuffix(Key))
    /\ NextFile
    /\ UNCHANGED <<files, tif_files, tif_files_done, inventory, archive, df,
                   cell, temp_file, d, status, runs, downloaded, dumped,
                   run_base, prev_status>>
    /\ UNCHANGED <<done_base, tif, output>>
    /\ UNCHANGED fn_vars

\* a fault: the key appended to tif_files_done where it is staged
StageKeyMutantMarksDone ==
    /\ pc = "for"
    /\ idx <= Len(files)
    /\ PassesExclude(cell, Key) /\ HasSuffix(Key)
    /\ tif_files' = Append(tif_files, Key)
    /\ tif_files_done' = Append(tif_files_done, Key)
    /\ temp_file' = temp_file + 1
    /\ pc' = "with"
    /\ UNCHANGED <<files, inventory, archive, df, cell, idx, d, status, runs,
                   downloaded, dumped, run_base, prev_status, done_base,
                   tif, output>>
    /\ UNCHANGED fn_vars

\* tif_files.append(file.key), and the with block is entered
StageKey ==
    /\ pc = "for"
    /\ idx <= Len(files)
    /\ PassesExclude(cell, Key) /\ HasSuffix(Key)
    /\ tif_files' = Append(tif_files, Key)
    /\ temp_file' = temp_file + 1
    /\ pc' = "with"
    /\ UNCHANGED <<files, tif_files_done, inventory, archive, df, cell, idx,
                   d, status, runs, downloaded, dumped,
                   run_base, prev_status>>
    /\ UNCHANGED <<done_base, tif, output>>
    /\ UNCHANGED fn_vars

\* file.key is in tif_files_done: the with block is left at once
AlreadyDone ==
    /\ pc = "with"
    /\ Key \in Elems(tif_files_done)
    /\ temp_file' = temp_file - 1
    /\ NextFile
    /\ UNCHANGED <<files, tif_files, tif_files_done, inventory, archive, df,
                   cell, d, status, runs, downloaded, dumped,
                   run_base, prev_status>>
    /\ UNCHANGED <<done_base, tif, output>>
    /\ UNCHANGED fn_vars

\* cornea_bucket.download_file(file.key, temp_file.name), which may raise
Download ==
    /\ pc = "with"
    /\ Key \notin Elems(tif_files_done)
    /\ downloaded' = downloaded \cup {Key}
    /\ \/ /\ pc' = "downloaded"
          /\ UNCHANGED <<status, temp_file, d>>
       \/ RaiseFrom("FetchError")
    /\ UNCHANGED <<files, tif_files, tif_files_done, inventory, archive, df,
                   cell, idx, runs, dumped,
                   run_base, prev_status>>
    /\ UNCHANGED <<done_base, tif, output>>
    /\ UNCHANGED fn_vars

\* tif = tifffile.TiffFile(temp_file.name); print(tif.info()).  The file
\* handle of the new TiffFile stays open: the loop never closes it.  (The
\* TiffFile tif was bound to before is left to the interpreter; the model
\* does not follow it.)
OpenTif ==
    /\ pc = "downloaded"
    /\ IF Bucket(Key).valid
       THEN /\ pc' = "opened"
            /\ tif' = Key
            /\ output' = Append(output, InfoOutput(Key))
            /\ UNCHANGED <<status, temp_file, d>>
       ELSE /\ RaiseFrom("InvalidTiff")
            /\ UNCHANGED <<tif, output>>
    /\ UNCHANGED <<files, tif_files, tif_files_done, inventory, archive, df,
                   cell, idx, runs, downloaded, dumped,
                   run_base, prev_status, done_base>>
    /\ UNCHANGED fn_vars

\* a fault: the archive file opened for writing before read_metadata is
\* called, which creates or empties it whether or not the parsing succeeds
ReadMetaMutantOpensFirst ==
    /\ pc = "opened"
    /\ archive' = Put(archive, metadata_filename(Key), EmptyDict)
    /\ LET r == read_metadata(Bucket(Key))
       IN  IF r.err = "none"
           THEN pc' = "read" /\ d' = r.d /\ UNCHANGED <<status, temp_file>>
           ELSE RaiseFrom(r.err)
    /\ UNCHANGED <<files, tif_files, tif_files_done, inventory, df,
                   cell, idx, runs, downloaded, dumped,
                   run_base, prev_status>>
    /\ UNCHANGED <<done_base, tif, output>>
    /\ UNCHANGED fn_vars

\* process_tif: d = read_metadata(filename)
ReadMeta ==
    /\ pc = "opened"
    /\ LET r == read_metadata(Bucket(Key))
       IN  IF r.err = "none"
           THEN pc' = "read" /\ d' = r.d /\ UNCHANGED <<status, temp_file>>
           ELSE RaiseFrom(r.err)
    /\ UNCHANGED <<files, tif_files, tif_files_done, inventory, archive, df,
                   cell, idx, runs, downloaded, dumped,
                   run_base, prev_status>>
    /\ UNCHANGED <<done_base, tif, output>>
    /\ UNCHANGED fn_vars

\* a fault: process_tif without the json.dump, as in the earlier cell
\* "process_tif(test_name)" that only builds the row
DumpMetaMutantNoDump ==
    /\ pc = "read"
    /\ pc' = "dumped"
    /\ UNCHANGED <<files, tif_files, tif_files_done, inventory, archive, df,
                   cell, idx, temp_file, d, status, runs, downloaded, dumped,
                   run_base, prev_status, done_base, tif, output>>
    /\ UNCHANGED fn_vars

\* process_tif: json.dump(d, file) into metadata_filename, unless the file
\* cannot be opened for writing
DumpMeta ==
    /\ pc = "read"
    /\ \/ /\ archive' = Put(archive, metadata_filename(Key), d)
          /\ dumped' = dumped \cup {Key}
          /\ pc' = "dumped"
          /\ UNCHANGED <<status, temp_file, d>>
       \/ /\ RaiseFrom("ArchiveWriteError")
          /\ UNCHANGED <<archive, dumped>>
    /\ UNCHANGED <<files, tif_files, tif_files_done, inventory, df, cell, idx,
                   runs, downloaded, run_base, prev_status>>
    /\ UNCHANGED <<done_base, tif, output>>
    /\ UNCHANGED fn_vars

\* process_tif: small_d, and df = pd.DataFrame(small_d, index = [label])
ProjectRow ==
    /\ pc = "dumped"
    /\ df' = Project(d, Key)
    /\ d' = EmptyDict
    /\ pc' = "projected"
    /\ UNCHANGED <<files, tif_files, tif_files_done, inventory, archive, cell,
                   idx, temp_file, status, runs, downloaded, dumped,
                   run_base, prev_status>>
    /\ UNCHANGED <<done_base, tif, output>>
    /\ UNCHANGED fn_vars

HeaderLine(row) == [kind |-> "header", label |-> "", cells |-> row.cols]
DataLine(row) == [kind |-> "row", label |-> row.label, cells |-> row.cells]

\* a fault: df.to_csv(INVENTORY_FILE) whether or not the file exists, which
\* writes the file anew
to_csvMutantOverwrite(inv, row) ==
    [exists |-> TRUE, lines |-> <<HeaderLine(row), DataLine(row)>>]

\* a fault: mode = 'a' without header = None, as in the cell
\* "df.to_csv('inventory.csv',mode = 'a')"
to_csvMutantHeader(inv, row) ==
    [exists |-> TRUE,
     lines |-> inv.lines \o <<HeaderLine(row), DataLine(row)>>]

\* a fault: the row written under the header, above the rows of the file
to_csvMutantOnTop(inv, row) ==
    IF inv.exists
    THEN [exists |-> TRUE,
          lines |-> <<Head(inv.lines), DataLine(row)>> \o Tail(inv.lines)]
    ELSE [exists |-> TRUE, lines |-> <<HeaderLine(row), DataLine(row)>>]

\* df.to_csv(INVENTORY_FILE, mode = 'a', header = None) when
\* os.path.isfile(INVENTORY_FILE), df.to_csv(INVENTORY_FILE) otherwise
to_csv(inv, row) ==
    IF inv.exists
    THEN [exists |-> TRUE, lines |-> Append(inv.lines, DataLine(row))]
    ELSE [exists |-> TRUE, lines |-> <<HeaderLine(row), DataLine(row)>>]

ToCsv ==
    /\ pc = "projected"
    /\ \/ /\ inventory' = to_csv(inventory, df)
          /\ pc' = "appended"
          /\ UNCHANGED <<status, temp_file, d>>
       \/ /\ RaiseFrom("TableWriteError")
          /\ UNCHANGED inventory
    /\ UNCHANGED <<files, tif_files, tif_files_done, archive, df, cell, idx,
                   runs, downloaded, dumped,
                   run_base, prev_status>>
    /\ UNCHANGED <<done_base, tif, output>>
    /\ UNCHANGED fn_vars

\* a fault: the key is not appended to tif_files_done
MarkDoneMutantForget ==
    /\ pc = "appended"
    /\ temp_file' = temp_file - 1
    /\ NextFile
    /\ UNCHANGED <<files, tif_files, tif_files_done, inventory, archive, df,
                   cell, d, status, runs, downloaded, dumped, run_base,
                   prev_status, done_base, tif, output>>
    /\ UNCHANGED fn_vars

\* tif_files_done.append(file.key), and the with block is left
MarkDone ==
    /\ pc = "appended"
    /\ tif_files_done' = Append(tif_files_done, Key)
    /\ temp_file' = temp_file - 1
    /\ NextFile
    /\ UNCHANGED <<files, tif_files, inventory, archive, df, cell, d, status,
                   runs, downloaded, dumped,
                   run_base, prev_status>>
    /\ UNCHANGED <<done_base, tif, output>>
    /\ UNCHANGED fn_vars

\* the kernel is interrupted while a loop cell runs (KeyboardInterrupt)
Interrupt ==
    /\ pc # "idle"
    /\ RaiseFrom("KeyboardInterrupt")
    /\ UNCHANGED <<files, tif_files, tif_files_done, inventory, archive, df,
                   cell, idx, runs, downloaded, dumped,
                   run_base, prev_status>>
    /\ UNCHANGED <<done_base, tif, output>>
    /\ UNCHANGED fn_vars

Next ==
    \/ RunInitCell
    \/ \E c \in {"main", "extra"} : RunLoopCell(c)
    \/ LoopEnd
    \/ SkipKey
    \/ StageKey
    \/ AlreadyDone
    \/ Download
    \/ OpenTif
    \/ ReadMeta
    \/ DumpMeta
    \/ ProjectRow
    \/ ToCsv
    \/ MarkDone
    \/ Interrupt

Spec == Init /\ [][Next]_vars

(***************************************************************************)
(* read_metadata and process_tif on their own: a container is assembled    *)
(* from parts, or a dictionary is given, and the functions are applied.    *)
(*                                                                         *)
(* A line of the description is a key, a text and the value the            *)
(* dictionary is to hold for it; form tells how the line is written:       *)
(*   "kv" key=text   "bare" the text alone   "bad_int" key=text, where the *)
(*   text is no integer though the key wants one   "non_ascii" key=text,   *)
(*   where a byte of the text is above 127                                 *)
(***************************************************************************)
Line(key, text, val) ==
    [key |-> key, text |-> text, raw |-> key \o "=" \o text, form |-> "kv",
     val |-> val]
BadIntLine(key, text) ==
    [key |-> key, text |-> text, raw |-> key \o "=" \o text,
     form |-> "bad_int", val |-> NoneV]
NonAsciiLine(key, text) ==
    [key |-> key, text |-> text, raw |-> key \o "=" \o text,
     form |-> "non_ascii", val |-> NoneV]
BareLine(text) ==
    [key |-> "", text |-> text, raw |-> text, form |-> "bare", val |-> NoneV]

LinePool ==
    {Line("images", "3", [t |-> "int", s |-> "", n |-> 3, f |-> 0]),
     Line("channels", "2", [t |-> "int", s |-> "", n |-> 2, f |-> 0]),
     Line("slices", "10", [t |-> "int", s |-> "", n |-> 10, f |-> 0]),
     BadIntLine("images", "x"),
     Line("hyperstack", "true", [t |-> "bool", s |-> "", n |-> 1, f |-> 0]),
     Line("hyperstack", "False", [t |-> "bool", s |-> "", n |-> 1, f |-> 0]),
     Line("hyperstack", "", [t |-> "bool", s |-> "", n |-> 0, f |-> 0]),
     Line("unit", "um", [t |-> "str", s |-> "um", n |-> 0, f |-> 0]),
     Line("unit", "", [t |-> "str", s |-> "", n |-> 0, f |-> 0]),
     Line("image_width", "7", [t |-> "str", s |-> "7", n |-> 0, f |-> 0]),
     NonAsciiLine("unit", "µm"),
     BareLine("note"),
     BareLine("a=b=c"),
     BareLine("")}

\* the lines of a description, at most
MaxLines == 2

\* the pages of a container, at most
MaxPages == 2

\* the description: the lines, each ended by a newline, the last one only
\* when trail holds
RECURSIVE JoinLines(_, _)
JoinLines(lines, trail) ==
    IF Len(lines) = 0 THEN ""
    ELSE IF Len(lines) = 1
         THEN Head(lines).raw \o (IF trail THEN "\n" ELSE "")
    ELSE Head(lines).raw \o "\n" \o JoinLines(Tail(lines), trail)

\* the strip_byte_counts of a page: none, one count or two
StripChoices == {"none", "one", "two"}

StripTuple(page, choice) ==
    IF choice = "two" THEN <<5, 7>>
    ELSE IF page = 1 THEN <<1159201000>> ELSE <<9>>

StripTags(page, choice) ==
    IF choice = "none" THEN <<>>
    ELSE <<TupleTag("strip_byte_counts", StripTuple(page, choice))>>

\* the parts of a container: the lines of the description and whether the
\* last one ends with a newline, whether the description is the first or the
\* last tag of page 1, and the strip counts of every page
Gens ==
    [lines : UNION {[1..n -> LinePool] : n \in 0..MaxLines},
     trail : BOOLEAN,
     order : {"first", "last"},
     strips : UNION {[1..n -> StripChoices] : n \in 1..MaxPages}]

Assemble(gen) ==
    LET desc == <<BytesTag("image_description",
                           JoinLines(gen.lines, gen.trail))>>
        dir == <<IntTag("image_width", 512)>> \o StripTags(1, gen.strips[1])
        page1 == IF gen.order = "first" THEN desc \o dir ELSE dir \o desc
    IN  Container(<<page1>> \o
                  [i \in 1..(Len(gen.strips) - 1) |->
                      StripTags(i + 1, gen.strips[i + 1])])

\* the values a dictionary given directly holds for the keys it has
DictValue(key) ==
    CASE key = "image_width" -> StrV("512")
      [] key = "image_length" -> StrV("256")
      [] key = "channels" -> IntV(2)
      [] key = "slices" -> IntV(10)
      [] key = "hyperstack" -> BoolV(TRUE)
      [] key = "sizeInGB" -> FloatDivBillion(1159201000)
      [] OTHER -> StrV("um")

DictKeys ==
    {"image_width", "image_length", "channels", "slices", "hyperstack",
     "sizeInGB", "unit"}

Dicts == {[k \in S |-> DictValue(k)] : S \in SUBSET DictKeys}

\* the label process_tif is called with
FnLabel == "a/F.tif"

\* the labels metadata_filename is computed for: keys of the bucket, with
\* one directory or more or none, and with one '.', several or none in the
\* last segment
Labels ==
    {"a/F.tif", "b/F.tif", "Scan050/Fused_ZSeries-050.tif", "F.tif",
     "a/b/x.ome.tif", "s/scan.1.tif", "s/scan.2.tif", "a.b/README",
     "d/.h.tif", "notes"}

InitFn ==
    /\ BatchStart(<<>>)
    /\ \/ \E gen \in Gens :
             /\ fn_gen = gen
             /\ fn_in = Assemble(gen)
             /\ fn_d = EmptyDict
             /\ fn_stage = "container"
       \/ \E dict \in Dicts :
             /\ fn_gen = [dict |-> dict]
             /\ fn_in = InvalidContainer
             /\ fn_d = dict
             /\ fn_stage = "dict"
       \/ \E label \in Labels :
             /\ fn_gen = [label |-> label]
             /\ fn_in = InvalidContainer
             /\ fn_d = EmptyDict
             /\ fn_stage = "label"
    /\ fn_res = NotRun
    /\ fn_row = NoRow
    /\ fn_name = ""

\* process_tif: d = read_metadata(filename)
ApplyReadMetadata ==
    /\ fn_stage = "container"
    /\ fn_res' = read_metadata(fn_in)
    /\ fn_d' = fn_res'.d
    /\ fn_stage' = IF fn_res'.err = "none" THEN "read" ELSE "raised"
    /\ UNCHANGED <<fn_gen, fn_in, fn_row, fn_name>>
    /\ UNCHANGED batch_vars

\* process_tif: small_d and the data frame, from d
ApplyProject ==
    /\ fn_stage \in {"read", "dict"}
    /\ fn_row' = Project(fn_d, FnLabel)
    /\ fn_stage' = IF fn_stage = "read" THEN "returned" ELSE "projected"
    /\ UNCHANGED <<fn_gen, fn_in, fn_res, fn_d, fn_name>>
    /\ UNCHANGED batch_vars

\* process_tif: metadata_filename = os.path.join(METADATA, ...)
ApplyMetadataFilename ==
    /\ fn_stage = "label"
    /\ fn_name' = metadata_filename(fn_gen.label)
    /\ fn_stage' = "named"
    /\ UNCHANGED <<fn_gen, fn_in, fn_res, fn_d, fn_row>>
    /\ UNCHANGED batch_vars

NextFn ==
    \/ ApplyReadMetadata
    \/ ApplyProject
    \/ ApplyMetadataFilename

SpecFn == InitFn /\ [][NextFn]_vars

(***************************************************************************)
(* What the properties below read off the state.                           *)
(***************************************************************************)
Lines == inventory.lines

\* the positions of the data rows among the lines lo..hi of the inventory
RowsIn(lo, hi) == {i \in lo..hi : Lines[i].kind = "row"}

\* the labels that have a row
RowLabels == {Lines[i].label : i \in RowsIn(1, Len(Lines))}

\* the keys the main loop processes
Eligible(c, key) ==
    /\ IF c = "main"
       THEN \A name \in exclude_list : ~Contains(name, key)
       ELSE \E name \in exclude_list : Contains(name, key)
    /\ EndsWith(key, "tif")

\* the exceptions of staging, parsing, decoding and coercing one key
PerImageFailures ==
    {"FetchError", "InvalidTiff", "UnicodeDecodeError", "ValueError_unpack",
     "ValueError_int"}

(***************************************************************************)
(* C1.  Idempotent re-run: a loop cell started after a loop cell that ran  *)
(* to completion appends no row for a label that had a row when it was     *)
(* started.                                                                *)
(***************************************************************************)
C1_IdempotentRerun ==
    prev_status = "completed" =>
        \A i \in RowsIn(run_base + 1, Len(Lines)) :
            \A j \in RowsIn(1, run_base) : Lines[i].label # Lines[j].label

(***************************************************************************)
(* C2.  No two rows of the inventory carry the same label.                 *)
(***************************************************************************)
C2_UniqueLabels ==
    \A i, j \in RowsIn(1, Len(Lines)) :
        i # j => Lines[i].label # Lines[j].label

(***************************************************************************)
(* C3.  A failure of staging, parsing, decoding or coercing one key does   *)
(* not end the batch: when the cell has ended, every later key of the      *)
(* listing that passes the filter has been recorded.                       *)
(***************************************************************************)
C3_FailureDoesNotAbort ==
    (pc = "idle" /\ status \in PerImageFailures) =>
        \A j \in (idx + 1)..Len(files) :
            Eligible(cell, files[j]) =>
                /\ files[j] \in Elems(tif_files_done)
                /\ files[j] \in RowLabels

(***************************************************************************)
(* C4.  A key that contains a pattern of exclude_list is never downloaded, *)
(* gets no archive entry and no row, and is never in tif_files_done.       *)
(***************************************************************************)
C4_ExcludedNeverProcessed ==
    \A k \in Keys :
        (\E name \in exclude_list : Contains(name, k)) =>
            /\ k \notin downloaded
            /\ k \notin dumped
            /\ k \notin RowLabels
            /\ k \notin Elems(tif_files_done)

(***************************************************************************)
(* C5.  The iteration of a key that does not end with 'tif' skips it: the  *)
(* step taken for the key creates no temporary file, downloads nothing and *)
(* leaves the inventory, the archive and tif_files_done as they were.      *)
(***************************************************************************)
AtKeyWithoutSuffix ==
    pc = "for" /\ idx <= Len(files) /\ ~EndsWith(files[idx], "tif")

C5_NoSuffixSkipped ==
    [][AtKeyWithoutSuffix =>
          /\ pc' \in {"for", "idle"}
          /\ temp_file' = 0
          /\ UNCHANGED <<inventory, archive, tif_files_done, tif_files,
                         downloaded, dumped>>]_vars

\* a key without the suffix was skipped, and no interrupt ended the cell
C5_Witness ==
    /\ pc = "for"
    /\ idx > 1
    /\ ~EndsWith(files[idx - 1], "tif")
    /\ idx <= Len(files)
    /\ EndsWith(files[idx], "tif")

(***************************************************************************)
(* C9.  Every label with a row has an archive entry of its own, which      *)
(* holds the dictionary read from that label's container.                  *)
(***************************************************************************)
C9_OneArchiveEntryPerLabel ==
    \A k \in RowLabels :
        /\ metadata_filename(k) \in DOMAIN archive
        /\ archive[metadata_filename(k)] = read_metadata(Bucket(k)).d
        /\ \A k2 \in RowLabels \ {k} :
               metadata_filename(k2) # metadata_filename(k)

ReadApplied == fn_stage \in {"read", "raised", "returned"}
ReadReturned == fn_stage \in {"read", "returned"}

GenLineKeys == {fn_gen.lines[i].key : i \in 1..Len(fn_gen.lines)}

\* the last line of the description that has the key
LastLineOf(key) ==
    LET at == {i \in 1..Len(fn_gen.lines) : fn_gen.lines[i].key = key}
    IN  fn_gen.lines[CHOOSE i \in at : \A j \in at : j <= i]

HasStrips == \E i \in 1..Len(fn_gen.strips) : fn_gen.strips[i] # "none"

\* the keys the directory tags of the container write
GenDirKeys == {"image_width"} \cup (IF HasStrips THEN {"sizeInGB"} ELSE {})

\* the keys a directory tag writes after the description was expanded
GenLaterDirKeys == IF fn_gen.order = "first" THEN GenDirKeys ELSE {}

RECURSIVE SumSeq(_)
SumSeq(seq) == IF Len(seq) = 0 THEN 0 ELSE Head(seq) + SumSeq(Tail(seq))

\* the strip byte counts of all pages, added up
RECURSIVE TotalStripBytes(_)
TotalStripBytes(page) ==
    IF page > Len(fn_gen.strips) THEN 0
    ELSE (IF fn_gen.strips[page] = "none" THEN 0
          ELSE SumSeq(StripTuple(page, fn_gen.strips[page])))
         + TotalStripBytes(page + 1)

(***************************************************************************)
(* C6.  The row process_tif builds has the six columns image_width,        *)
(* image_length, channels, slices, hyperstack, sizeInGB in this order; a   *)
(* cell holds the value d has for the column, None when d lacks the key;   *)
(* d is as it was.                                                         *)
(***************************************************************************)
C6_RowHasSixColumns ==
    fn_stage \in {"projected", "returned"} =>
        /\ fn_row.cols = <<"image_width", "image_length", "channels",
                           "slices", "hyperstack", "sizeInGB">>
        /\ DOMAIN fn_row.cells = 1..6
        /\ \A i \in 1..6 :
              fn_row.cells[i] =
                  IF fn_row.cols[i] \in DOMAIN fn_d
                  THEN fn_d[fn_row.cols[i]]
                  ELSE [t |-> "none", s |-> "", n |-> 0, f |-> 0]
        /\ fn_stage = "projected" => fn_d = fn_gen.dict
        /\ fn_stage = "returned" => fn_d = fn_res.d

\* a dictionary with some of the six keys, and a key that is no column
C6_Witness ==
    /\ fn_stage = "projected"
    /\ DOMAIN fn_d = {"image_width", "hyperstack", "unit"}

(***************************************************************************)
(* C7.  For a container with a strip_byte_counts tag, sizeInGB is the sum  *)
(* of the strip byte counts of the image divided by 1,000,000,000.         *)
(***************************************************************************)
C7_SizeIsTotalBytes ==
    (ReadReturned /\ HasStrips) =>
        /\ "sizeInGB" \in DOMAIN fn_d
        /\ fn_d["sizeInGB"] =
              [t |-> "float", s |-> "",
               n |-> TotalStripBytes(1) \div 1000000000,
               f |-> TotalStripBytes(1) % 1000000000]

(***************************************************************************)
(* C8.  A description of newline-terminated lines key=value, each with one *)
(* '=' (the text of images, channels and slices that of an integer): the   *)
(* dictionary gets the keys of the lines and no other; images, channels    *)
(* and slices hold the integer of their text, every other key holds its    *)
(* text unchanged.  (The statement as claimed.)                            *)
(***************************************************************************)
C8_ExpandsAllTextButIntegers ==
    (/\ ReadApplied
     /\ fn_gen.trail
     /\ \A i \in 1..Len(fn_gen.lines) : fn_gen.lines[i].form = "kv") =>
        /\ fn_res.err = "none"
        /\ DOMAIN fn_res.d = GenLineKeys \cup GenDirKeys
        /\ \A k \in GenLineKeys \ GenLaterDirKeys :
              fn_res.d[k] =
                  IF k \in {"images", "channels", "slices"}
                  THEN LastLineOf(k).val
                  ELSE [t |-> "str", s |-> LastLineOf(k).text, n |-> 0,
                        f |-> 0]

(***************************************************************************)
(* C8, amended.  A description of newline-terminated lines key=value, each *)
(* with one '=', where the text of images, channels and slices is that of  *)
(* an integer: the dictionary gets the keys of the lines and no other;     *)
(* images, channels and slices hold the integer of their text, hyperstack  *)
(* holds the boolean that is true unless its text is empty, every other    *)
(* key holds its text; of two lines with one key the later one counts.     *)
(***************************************************************************)
C8_ExpandsWithCoercion ==
    (/\ ReadApplied
     /\ fn_gen.trail
     /\ \A i \in 1..Len(fn_gen.lines) : fn_gen.lines[i].form = "kv") =>
        /\ fn_res.err = "none"
        /\ DOMAIN fn_res.d = GenLineKeys \cup GenDirKeys
        /\ \A k \in GenLineKeys \ GenLaterDirKeys :
              fn_res.d[k] = LastLineOf(k).val

\* two lines were expanded, an integer and a text
C8_Witness ==
    /\ fn_stage = "read"
    /\ fn_gen.trail
    /\ Len(fn_gen.lines) = 2
    /\ fn_gen.lines[1].raw = "slices=10"
    /\ fn_gen.lines[2].raw = "unit=um"
    /\ fn_res.d["slices"].n = 10

(***************************************************************************)
(* What the properties of one run of a loop cell read off the state.       *)
(***************************************************************************)
\* the positions of the rows the loop cell that runs or ran last appended
RunRows == RowsIn(run_base + 1, Len(Lines))

\* the iteration is at the test "file.key not in tif_files_done" with a key
\* that is in tif_files_done
AtKeyAlreadyDone ==
    pc = "with" /\ files[idx] \in Elems(tif_files_done)

(***************************************************************************)
(* C11.  In a run of a loop cell started with tif_files_done empty, no two *)
(* rows the run appends carry the same label, also when the listing yields *)
(* a key twice; the step taken for a key that is in tif_files_done         *)
(* downloads nothing, writes no archive entry and appends no row.          *)
(***************************************************************************)
C11_OneRowPerLabelInRun ==
    [][/\ done_base' = <<>> =>
             \A i, j \in RunRows' :
                 i # j => Lines'[i].label # Lines'[j].label
       /\ AtKeyAlreadyDone =>
             UNCHANGED <<downloaded, archive, dumped, inventory>>]_vars

\* the listing yielded one key twice, and the run that started with
\* tif_files_done empty ended having appended one row
C11_Witness ==
    /\ pc = "idle"
    /\ status = "completed"
    /\ done_base = <<>>
    /\ Len(files) = 2
    /\ files[1] = files[2]
    /\ Cardinality(RunRows) = 1
    /\ tif_files_done = <<files[1]>>

\* the step leaves the writing of the archive entry, or of the table,
\* without having written
WriteFailed ==
    \/ pc = "read" /\ pc' \notin {"read", "dumped"}
    \/ pc = "projected" /\ pc' \notin {"projected", "appended"}

(***************************************************************************)
(* C12.  When the archive entry or the table is not written for a key,     *)
(* the loop cell ends there: the key is not in tif_files_done, the table   *)
(* and tif_files are as they were, and while no loop cell is started       *)
(* again no key is staged, downloaded, archived or recorded.               *)
(***************************************************************************)
C12_WriteFailureAborts ==
    [][/\ WriteFailed =>
             /\ pc' = "idle"
             /\ status' # "completed"
             /\ idx' = idx
             /\ files[idx] \notin Elems(tif_files_done')
             /\ UNCHANGED <<inventory, tif_files, tif_files_done>>
       /\ (pc = "idle" /\ pc' = "idle") =>
             /\ UNCHANGED <<inventory, archive, downloaded, idx>>
             /\ Len(tif_files') <= Len(tif_files)
             /\ Len(tif_files_done') <= Len(tif_files_done)]_vars

\* the table could not be written for the first of two keys, after an
\* earlier run had appended a row: the second key was not staged, the rows
\* are those of the earlier run
C12_Witness ==
    /\ pc = "idle"
    /\ status = "TableWriteError"
    /\ Len(files) = 2
    /\ idx = 1
    /\ Eligible(cell, files[2])
    /\ files[2] \notin Elems(tif_files)
    /\ run_base >= 2
    /\ Len(Lines) = run_base

(***************************************************************************)
(* What the properties of the description read off its lines.              *)
(***************************************************************************)
\* the lines of the description but the final one, which is discarded: the
\* text after the last newline is the final line
KeptLines ==
    IF fn_gen.trail \/ Len(fn_gen.lines) = 0
    THEN fn_gen.lines
    ELSE SubSeq(fn_gen.lines, 1, Len(fn_gen.lines) - 1)

\* how many '=' the text has
EqCount(text) == Cardinality({i \in 1..Len(text) : SubSeq(text, i, i) = "="})

\* the positions of the kept lines with no '=' or more than one
BadEqLines == {i \in 1..Len(KeptLines) : EqCount(KeptLines[i].raw) # 1}

FirstBadEqLine == CHOOSE i \in BadEqLines : \A j \in BadEqLines : i <= j

(***************************************************************************)
(* C13.  A line of the description, the discarded final one excepted, with *)
(* no '=' or more than one makes read_metadata fail with the error of the  *)
(* malformed description.  (The statement as claimed.)                     *)
(***************************************************************************)
C13_BadLineRaisesMalformed ==
    (ReadApplied /\ BadEqLines # {}) => fn_res.err = "ValueError_unpack"

(***************************************************************************)
(* C13, amended.  A line of the description, the discarded final one       *)
(* excepted, with no '=' or more than one makes read_metadata fail: no     *)
(* dictionary is returned.  The error is that of the malformed description *)
(* when the description decodes as ASCII and no line before the first such *)
(* line fails the conversion to an integer; otherwise it is the error of   *)
(* the decoding or of the conversion, which is raised first.               *)
(***************************************************************************)
C13_BadLineFails ==
    (ReadApplied /\ BadEqLines # {}) =>
        /\ fn_stage = "raised"
        /\ fn_res.err =
              IF \E i \in 1..Len(fn_gen.lines) :
                     fn_gen.lines[i].form = "non_ascii"
              THEN "UnicodeDecodeError"
              ELSE IF \E j \in 1..(FirstBadEqLine - 1) :
                          KeptLines[j].form = "bad_int"
                   THEN "ValueError_int"
                   ELSE "ValueError_unpack"

\* a line with two '=' after a line that was expanded: the error of the
\* malformed description was raised
C13_Witness ==
    /\ fn_stage = "raised"
    /\ fn_gen.trail
    /\ Len(fn_gen.lines) = 2
    /\ fn_gen.lines[1].raw = "slices=10"
    /\ fn_gen.lines[2].raw = "a=b=c"
    /\ fn_res.err = "ValueError_unpack"

\* the kept line i is the last kept line with its key
IsLastOfKey(i) ==
    \A j \in (i + 1)..Len(KeptLines) : KeptLines[j].key # KeptLines[i].key

(***************************************************************************)
(* C14.  In the dictionary read_metadata returns, a key that both a line   *)
(* of the description and a directory tag of the same name produce holds   *)
(* the value expanded from the description, wherever the description       *)
(* stands among the tags.                                                  *)
(***************************************************************************)
C14_DescriptorPrecedence ==
    ReadReturned =>
        \A i \in 1..Len(KeptLines) :
            (KeptLines[i].key \in GenDirKeys /\ IsLastOfKey(i)) =>
                fn_res.d[KeptLines[i].key] = KeptLines[i].val

(***************************************************************************)
(* C15.  When the loop cell has run to its end, its output holds a report  *)
(* of the counts of the keys processed, skipped and failed.  (The cell     *)
(* prints tif.info() for every container it opens, and %%time prints the   *)
(* times; nothing counts the keys.)                                        *)
(***************************************************************************)
C15_FinalCounts ==
    (pc = "idle" /\ status = "completed") =>
        \E i \in 1..Len(output) : output[i].kind = "counts"

(***************************************************************************)
(* C16.  Every key in tif_files_done has a row in the inventory and had    *)
(* an archive entry written for it by json.dump, in every state, also      *)
(* after an exception or an interrupt.                                     *)
(***************************************************************************)
C16_DoneOnlyAfterRecorded ==
    \A n \in 1..Len(tif_files_done) :
        /\ \E i \in 2..Len(Lines) :
               Lines[i].kind = "row" /\ Lines[i].label = tif_files_done[n]
        /\ tif_files_done[n] \in dumped

\* the first key is in tif_files_done; the table could not be written for
\* the second key, which has its archive entry and is not in
\* tif_files_done
C16_Witness ==
    /\ pc = "idle"
    /\ status = "TableWriteError"
    /\ Len(files) = 2
    /\ idx = 2
    /\ tif_files_done = <<files[1]>>
    /\ files[2] \in dumped
    /\ files[2] \notin RowLabels

(***************************************************************************)
(* C17.  Every label with a row in the inventory had an archive entry      *)
(* written for it by json.dump, in every state, and the archive file of a  *)
(* key is there when its row is appended: the entry is written before the  *)
(* row, so that a run ended between the two leaves an archive entry        *)
(* without a row and never a row without an entry.                         *)
(***************************************************************************)
C17_ArchiveBeforeRow ==
    /\ \A i \in 1..Len(Lines) :
           Lines[i].kind = "row" => Lines[i].label \in dumped
    /\ pc \in {"projected", "appended"} =>
           /\ files[idx] \in dumped
           /\ metadata_filename(files[idx]) \in DOMAIN archive

\* the run was interrupted between json.dump and to_csv of the second key:
\* the first key has its row and its entry, the second its entry only
C17_Witness ==
    /\ pc = "idle"
    /\ status = "KeyboardInterrupt"
    /\ Len(files) = 2
    /\ idx = 2
    /\ files[1] \in RowLabels
    /\ files[2] \in dumped
    /\ files[2] \notin RowLabels
    /\ metadata_filename(files[2]) \in DOMAIN archive

(***************************************************************************)
(* C18.  At most one temporary file exists at any time, and none exists    *)
(* when the loop is at the head of an iteration or the cell has ended,     *)
(* however the iteration before was left: by its last statement, by an     *)
(* exception of the download, of the parsing or of a write, or by an       *)
(* interrupt.                                                              *)
(***************************************************************************)
C18_TempFileReleased ==
    /\ temp_file \in {0, 1}
    /\ pc \in {"for", "idle"} => temp_file = 0
    /\ pc \notin {"for", "idle"} => temp_file = 1

\* the first key was recorded, the parsing of the second failed and ended
\* the cell: no temporary file is left
C18_Witness ==
    /\ pc = "idle"
    /\ status = "ValueError_unpack"
    /\ Len(files) = 2
    /\ idx = 2
    /\ files[1] \in Elems(tif_files_done)
    /\ files[2] \in downloaded
    /\ temp_file = 0

(***************************************************************************)
(* C19.  When the processing of a key has ended, by its last statement or  *)
(* by an exception, no file handle opened on its container is open: none   *)
(* is open at the head of an iteration or when the cell has ended.  (The   *)
(* handle of read_metadata is opened and closed by its with statement      *)
(* within one step; tif is the handle the loop itself opens.)              *)
(***************************************************************************)
C19_HandlesReleased ==
    pc \in {"for", "idle"} => tif = ""

IsRow(line) == line.kind = "row"

\* the data rows among lines, in their order
DataRows(lines) == SelectSeq(lines, IsRow)

(***************************************************************************)
(* C20.  Every step leaves the inventory as it is or appends one row at    *)
(* its end: the lines it had stay where and what they were, and the data   *)
(* rows are those it had followed by the new last line.                    *)
(***************************************************************************)
C20_AppendOnly ==
    [][\/ inventory' = inventory
       \/ /\ inventory'.exists
          /\ Len(Lines') > Len(Lines)
          /\ SubSeq(Lines', 1, Len(Lines)) = Lines
          /\ IsRow(Lines'[Len(Lines')])
          /\ DataRows(Lines') =
                 Append(DataRows(Lines), Lines'[Len(Lines')])]_vars

\* two rows were appended, the second to the file the first had created,
\* and the run was interrupted before the second key was appended to
\* tif_files_done: both rows are there
C20_Witness ==
    /\ pc = "idle"
    /\ status = "KeyboardInterrupt"
    /\ Len(files) = 2
    /\ Len(tif_files_done) = 1
    /\ Len(Lines) = 3
    /\ Lines[2].label = files[1]
    /\ Lines[3].label = files[2]

(***************************************************************************)
(* C21.  In the dictionary read_metadata returns, hyperstack is the        *)
(* boolean True when the text of its line, the last one with this key, is  *)
(* not empty, the text "False" included, and the boolean False when the    *)
(* text is empty.                                                          *)
(***************************************************************************)
C21_HyperstackTruthiness ==
    ReadReturned =>
        \A i \in 1..Len(KeptLines) :
            (KeptLines[i].key = "hyperstack" /\ IsLastOfKey(i)) =>
                /\ "hyperstack" \in DOMAIN fn_res.d
                /\ fn_res.d["hyperstack"] =
                       [t |-> "bool", s |-> "",
                        n |-> IF KeptLines[i].text = "" THEN 0 ELSE 1,
                        f |-> 0]

\* the line hyperstack=False was expanded: the value is True
C21_Witness ==
    /\ fn_stage = "read"
    /\ fn_gen.trail
    /\ Len(fn_gen.lines) = 1
    /\ fn_gen.lines[1].raw = "hyperstack=False"
    /\ fn_res.d["hyperstack"].t = "bool"
    /\ fn_res.d["hyperstack"].n = 1

\* the keys of the kept lines
KeptKeys == {KeptLines[i].key : i \in 1..Len(KeptLines)}

\* the description does not end with a newline: its last line is the final
\* segment
LastLineUnterminated == ~fn_gen.trail /\ Len(fn_gen.lines) >= 1

(***************************************************************************)
(* C22.  A description that does not end with a newline loses its last     *)
(* line: when the description decodes as ASCII and the lines before the    *)
(* last are of the form key=value with integer texts where integers are    *)
(* wanted, read_metadata returns whatever the last line is, with or        *)
(* without '=', and the dictionary has the keys of the lines before the    *)
(* last and of the directory tags only.                                    *)
(***************************************************************************)
C22_LastSegmentDiscarded ==
    (/\ ReadApplied
     /\ LastLineUnterminated
     /\ \A i \in 1..Len(fn_gen.lines) : fn_gen.lines[i].form # "non_ascii"
     /\ \A i \in 1..Len(KeptLines) : KeptLines[i].form = "kv") =>
        /\ fn_res.err = "none"
        /\ DOMAIN fn_res.d = KeptKeys \cup GenDirKeys
        /\ LET last == fn_gen.lines[Len(fn_gen.lines)]
           IN  last.key \notin KeptKeys \cup GenDirKeys =>
                   last.key \notin DOMAIN fn_res.d

\* the description "slices=10\nunit=um": unit is not in the dictionary
C22_Witness ==
    /\ fn_stage = "read"
    /\ ~fn_gen.trail
    /\ Len(fn_gen.lines) = 2
    /\ fn_gen.lines[1].raw = "slices=10"
    /\ fn_gen.lines[2].raw = "unit=um"
    /\ "slices" \in DOMAIN fn_res.d
    /\ "unit" \notin DOMAIN fn_res.d

\* the positions of the lines, and of the kept lines, of images, channels
\* or slices whose text is not that of an integer
BadIntAmong(lines) == {i \in 1..Len(lines) : lines[i].form = "bad_int"}

FirstBadIntLine ==
    CHOOSE i \in BadIntAmong(KeptLines) :
        \A j \in BadIntAmong(KeptLines) : i <= j

(***************************************************************************)
(* C23.  A line of the description that gives images, channels or slices   *)
(* a text that is not that of an integer makes read_metadata fail with the *)
(* error of the conversion.  (The statement as claimed.)                   *)
(***************************************************************************)
C23_BadIntRaisesCoercion ==
    (ReadApplied /\ BadIntAmong(fn_gen.lines) # {}) =>
        fn_res.err = "ValueError_int"

(***************************************************************************)
(* C23, amended.  A line of the description, the discarded final one       *)
(* excepted, that gives images, channels or slices a text that is not that *)
(* of an integer makes read_metadata fail: no dictionary is returned, so   *)
(* the key is stored neither as a text nor with a default.  The error is   *)
(* that of the conversion when the description decodes as ASCII and no     *)
(* line before the first such line lacks its one '='; otherwise it is the  *)
(* error of the decoding or of the malformed line, which is raised first.  *)
(***************************************************************************)
C23_BadIntFails ==
    (ReadApplied /\ BadIntAmong(KeptLines) # {}) =>
        /\ fn_stage = "raised"
        /\ fn_d = EmptyDict
        /\ fn_res.err =
              IF \E i \in 1..Len(fn_gen.lines) :
                     fn_gen.lines[i].form = "non_ascii"
              THEN "UnicodeDecodeError"
              ELSE IF \E j \in 1..(FirstBadIntLine - 1) :
                          EqCount(KeptLines[j].raw) # 1
                   THEN "ValueError_unpack"
                   ELSE "ValueError_int"

\* images=x after a line that was expanded: the error of the conversion
\* was raised
C23_Witness ==
    /\ fn_stage = "raised"
    /\ fn_gen.trail
    /\ Len(fn_gen.lines) = 2
    /\ fn_gen.lines[1].raw = "slices=10"
    /\ fn_gen.lines[2].raw = "images=x"
    /\ fn_res.err = "ValueError_int"

(***************************************************************************)
(* What the property of the archive file name reads off the label.         *)
(***************************************************************************)
\* the position of the last occurrence of the character c in s, 0 when none
LastIndexOf(s, c) ==
    LET at == {i \in 1..Len(s) : SubSeq(s, i, i) = c}
    IN  IF at = {} THEN 0 ELSE CHOOSE i \in at : \A j \in at : j <= i

\* the text of the label after its last '/'
LastSegment(label) ==
    SubSeq(label, LastIndexOf(label, "/") + 1, Len(label))

\* the segment without its extension, the extension being what
\* os.path.splitext splits off: the text from the last '.' on, unless that
\* '.' is the first character
StripExtension(seg) ==
    IF LastIndexOf(seg, ".") <= 1 THEN seg
    ELSE SubSeq(seg, 1, LastIndexOf(seg, ".") - 1)

(***************************************************************************)
(* C24.  The archive file of a label is named by the last segment of the   *)
(* label without its extension, followed by "_metadata.txt", in METADATA:  *)
(* also for a last segment with several '.' or with none.                  *)
(***************************************************************************)
C24_ArchiveNameFromLabel ==
    fn_stage = "named" =>
        fn_name =
            "data/metadata/" \o StripExtension(LastSegment(fn_gen.label))
                \o "_metadata.txt"

\* the exceptions of parsing a container: of TiffFile, of the decoding of
\* the description, of the split of a line and of int()
ParseFailures ==
    {"InvalidTiff", "UnicodeDecodeError", "ValueError_unpack",
     "ValueError_int"}

(***************************************************************************)
(* C25.  A key whose container fails to parse leaves the archive, the      *)
(* inventory and tif_files_done as they were: no step of an iteration up   *)
(* to and including the parsing changes them, and the step in which the    *)
(* parsing fails ends the cell with the key in neither of them.            *)
(***************************************************************************)
C25_ParseFailureLeavesState ==
    [][/\ pc \in {"for", "with", "downloaded", "opened"} =>
             UNCHANGED <<archive, inventory, tif_files_done, dumped>>
       /\ (status = "running" /\ status' \in ParseFailures) =>
             /\ pc \in {"downloaded", "opened"}
             /\ pc' = "idle"
             /\ files[idx] \notin dumped'
             /\ files[idx] \notin Elems(tif_files_done')
             /\ \A i \in 1..Len(Lines') : Lines'[i].label # files[idx]]_vars

\* the first key was recorded; the container of the second is no TIFF
\* file: the archive has the entry of the first key only and the inventory
\* its row only
C25_Witness ==
    /\ pc = "idle"
    /\ status = "InvalidTiff"
    /\ Len(files) = 2
    /\ idx = 2
    /\ tif_files_done = <<files[1]>>
    /\ dumped = {files[1]}
    /\ Cardinality(DOMAIN archive) = 1
    /\ Len(Lines) = 2
    /\ Lines[2].label = files[1]

\* the keys of the listing the main loop is to process
EligibleListed ==
    {files[i] : i \in {j \in 1..Len(files) : Eligible("main", files[j])}}

\* the main loop, started with tif_files_done empty, ends having run
\* through the listing
MainRunCompletes ==
    /\ pc = "for"
    /\ pc' = "idle"
    /\ status' = "completed"
    /\ cell = "main"
    /\ done_base = <<>>

\* the statements of the body in the order the loop reaches them
Position ==
    [for |-> 0, with |-> 1, downloaded |-> 2, opened |-> 3, read |-> 4,
     dumped |-> 5, projected |-> 6, appended |-> 7]

\* a bound on the steps the running cell has left: the keys not yet taken
\* from the listing, each with the statements of the body, less those the
\* current pass has reached
StepsLeft ==
    IF pc = "idle" THEN 0
    ELSE 8 * (Len(files) + 1 - idx) - Position[pc] + 1

(***************************************************************************)
(* C26.  A run of a loop cell comes to an end: every step of a running     *)
(* cell lowers the bound StepsLeft, which is never negative.  When the     *)
(* main loop was started with tif_files_done empty and ends with no        *)
(* exception raised, tif_files_done                                        *)
(* holds the keys of the listing that contain no pattern of exclude_list   *)
(* and end with 'tif', each once, and each has one row among the rows the  *)
(* run appended, which has no other rows.                                  *)
(***************************************************************************)
C26_RunTerminatesWithEligibleDone ==
    [][/\ pc # "idle" => (StepsLeft' < StepsLeft /\ StepsLeft' >= 0)
       /\ MainRunCompletes =>
             /\ Elems(tif_files_done') = EligibleListed
             /\ Len(tif_files_done') = Cardinality(EligibleListed)
             /\ Cardinality(RunRows') = Cardinality(EligibleListed)
             /\ \A k \in EligibleListed :
                    \E i \in RunRows' : Lines'[i].label = k]_vars

\* the run over a listing of two keys the loop is to process ended: both
\* are in tif_files_done, each with its row
C26_Witness ==
    /\ pc = "idle"
    /\ status = "completed"
    /\ cell = "main"
    /\ done_base = <<>>
    /\ Len(files) = 2
    /\ files[1] # files[2]
    /\ tif_files_done = files
    /\ Cardinality(RunRows) = 2

\* the position at which the listing first yields the key, 0 when it does
\* not yield it
FirstListed(key) ==
    IF \E p \in 1..Len(files) : files[p] = key
    THEN CHOOSE p \in 1..Len(files) :
             /\ files[p] = key
             /\ \A q \in 1..(p - 1) : files[q] # key
    ELSE 0

(***************************************************************************)
(* C27.  The rows a run of a loop cell appended stand in the inventory in  *)
(* the order in which the listing first yields their keys: of two rows of  *)
(* the run, the one that stands earlier has the key listed earlier.        *)
(***************************************************************************)
C27_RowsInListingOrder ==
    \A i, j \in RunRows :
        i < j =>
            /\ FirstListed(Lines[i].label) > 0
            /\ FirstListed(Lines[i].label) < FirstListed(Lines[j].label)

\* a second run of the main loop has appended the rows of two keys below
\* the rows of the first run, the key listed first above the other
C27_Witness ==
    /\ cell = "main"
    /\ runs = 2
    /\ run_base > 0
    /\ Len(files) = 2
    /\ Cardinality(RunRows) = 2
    /\ Lines[Len(Lines) - 1].label = files[1]
    /\ Lines[Len(Lines)].label = files[2]
    /\ files[1] # files[2]

====
